---------------------------- MODULE Spec2Model ----------------------------
(***************************************************************************)
(* A model of yurei-quant-insight: the two detectors of                    *)
(* src/src/analysis/metrics.py as operators over a trade batch, the        *)
(* analysis cycle of src/src/analysis/analyzer.py and the drive loop of    *)
(* main.py as a state machine.                                             *)
(*                                                                         *)
(* Time is counted in ticks of the timestamp column; a window of n minutes *)
(* is n ticks.  Amounts are integers; a quotient is kept as the exact      *)
(* fraction [num, den], +infinity being [num |-> 1, den |-> 0].            *)
(***************************************************************************)
EXTENDS Integers, Sequences, FiniteSets, TLC

VARIABLES
    pc,                \* position of the running code
    trades_lf,         \* the batch: rows in the order the query returned them
    mint,              \* the mint the detectors are called with
    threshold_percent, \* the threshold detect_volume_spike is called with
    volume_signal,     \* what detect_volume_spike returned
    whale_signals,     \* what detect_whale_accumulation returned
    shutdown_event,    \* QuantInsightRunner._shutdown_event
    cycle_count,       \* the cycle_count of QuantInsightRunner.run
    elapsed,           \* ticks the idle wait has lasted
    mints,             \* the list get_unique_mints returned
    idx,               \* position of the for loop in mints
    signals,           \* the list run_analysis_cycle builds and returns
    emitted,           \* the signals passed to log_signal in this cycle
    signal_count,      \* SignalConsole._signal_count
    analyzed,          \* positions of mints both detectors have run for
    failed,            \* position of the mint a detector raised for, or 0
    raised,            \* the call of this cycle an exception came from
    calls,             \* the detector calls of this cycle, in order
    log_calls,         \* log_signal calls since the console was constructed
    returned_total     \* lengths of the lists the completed cycles returned

detector == <<trades_lf, mint, threshold_percent, volume_signal, whale_signals>>

runner ==
    <<shutdown_event, cycle_count, elapsed, mints, idx, signals, emitted,
      signal_count, analyzed, failed, raised, calls, log_calls,
      returned_total>>

vars == <<pc, detector, runner>>

\* QuantInsightRunner, AlphaAnalyzer and SignalConsole as constructed
RunnerInit ==
    /\ shutdown_event = FALSE
    /\ cycle_count = 0
    /\ elapsed = 0
    /\ mints = <<>>
    /\ idx = 0
    /\ signals = <<>>
    /\ emitted = <<>>
    /\ signal_count = 0
    /\ analyzed = {}
    /\ failed = 0
    /\ raised = "none"
    /\ calls = <<>>
    /\ log_calls = 0
    /\ returned_total = 0

---------------------------------------------------------------------------
(* Parameters of the program and bounds of the model *)

RecentMinutes == 5
BaselineMinutes == 15
VolumeSpikeThreshold == 300
WhaleSolThreshold == 10
WhaleFirstMinutes == 5

\* the reading of the clock when detect_volume_spike runs
Now == 21
\* the longest batch the detectors are applied to
MaxTrades == 3
\* the longest batch an analysis cycle fetches
MaxFetched == 2
\* the cycles the drive loop is followed for
MaxCycles == 2
\* the ticks of the idle wait between two cycles
IntervalTicks == 2

Mints == {"m1", "m2"}
Traders == {"ta", "tb"}
SolAmounts == {1, 5, 11}
Thresholds == {0, 300, 400, 1000}

\* instants around every cutoff of detect_volume_spike, and at the clock itself
VolumeTimes ==
    { Now - (RecentMinutes + BaselineMinutes) - 1,
      Now - (RecentMinutes + BaselineMinutes),
      Now - RecentMinutes - 1,
      Now - RecentMinutes,
      Now - 1,
      Now }

---------------------------------------------------------------------------
(* Rows and batches *)

Trade(t, m, tr, b, s, tok, vs, vt) ==
    [ observed_at |-> t, mint |-> m, trader |-> tr, is_buy |-> b,
      sol_amount |-> s, token_amount |-> tok,
      virtual_sol_reserves |-> vs, virtual_token_reserves |-> vt ]

\* ORDER BY observed_at DESC: rows with equal observed_at come in any order
IsDescending(s) ==
    \A i \in 1..(Len(s) - 1) : s[i].observed_at >= s[i + 1].observed_at

\* the frames of at most n rows of a universe that the query can return
BatchesOver(universe, n) ==
    UNION { { s \in [1..k -> universe] : IsDescending(s) } : k \in 0..n }

\* buys and sells of the analysed mint around every cutoff, and buys of
\* another mint at the same instants
VolumeTrades ==
    { Trade(t, "m1", "ta", b, s, 1, 1, 1) :
        t \in VolumeTimes, b \in BOOLEAN, s \in SolAmounts }
    \cup { Trade(t, "m2", "ta", TRUE, 11, 1, 1, 1) : t \in VolumeTimes }

VolumeBatches == BatchesOver(VolumeTrades, MaxTrades)

\* a launch instant, the end of the launch window, and one tick after it
WhaleTimes == {0, WhaleFirstMinutes, WhaleFirstMinutes + 1}
WhaleSolAmounts == {5, 10, 25}
ReservePairs == {<<0, 1>>, <<1, 0>>, <<1, 1>>, <<2, 1>>}

\* buys of the analysed mint that differ in instant, trader and amount, its
\* sells at every instant, and buys of another mint at the same instants
WhaleTrades ==
    { Trade(t, "m1", tr, TRUE, s, 1, 1, 1) :
        t \in WhaleTimes, tr \in Traders, s \in WhaleSolAmounts }
    \cup { Trade(t, "m1", tr, FALSE, 25, 1, 1, 1) :
             t \in WhaleTimes, tr \in Traders }
    \cup { Trade(t, "m2", "ta", TRUE, 25, 1, 1, 1) : t \in WhaleTimes }

\* buys of one trader that differ in instant, token amount and reserves
ReserveTrades ==
    { Trade(t, "m1", "ta", TRUE, 10, tok, r[1], r[2]) :
        t \in WhaleTimes, tok \in {1, 2}, r \in ReservePairs }

\* the rows an analysis cycle may fetch: recent buys of each mint, below and
\* on the whale threshold, and a recent sell of each mint
FetchedTrades ==
    { Trade(Now - 1, m, "ta", TRUE, s, 1, 1, 1) : m \in Mints, s \in {5, 10} }
    \cup { Trade(Now - 1, m, "ta", FALSE, 10, 1, 1, 1) : m \in Mints }

FetchedBatches == BatchesOver(FetchedTrades, MaxFetched)

\* SELECT DISTINCT mint: every mint at most once, in any order
MintLists ==
    { l \in UNION { [1..k -> Mints] : k \in 0..Cardinality(Mints) } :
        \A i, j \in DOMAIN l : i # j => l[i] # l[j] }

WhaleBatches ==
    BatchesOver(WhaleTrades, MaxTrades) \cup BatchesOver(ReserveTrades, MaxTrades)

---------------------------------------------------------------------------
(* Column aggregates *)

RECURSIVE SumSol(_)
SumSol(s) ==
    IF s = <<>> THEN 0 ELSE Head(s).sol_amount + SumSol(Tail(s))

RECURSIVE SumTokens(_)
SumTokens(s) ==
    IF s = <<>> THEN 0 ELSE Head(s).token_amount + SumTokens(Tail(s))

MinTime(s) ==
    CHOOSE x \in { s[i].observed_at : i \in 1..Len(s) } :
        \A i \in 1..Len(s) : x <= s[i].observed_at

MaxTime(s) ==
    CHOOSE x \in { s[i].observed_at : i \in 1..Len(s) } :
        \A i \in 1..Len(s) : x >= s[i].observed_at

---------------------------------------------------------------------------
(* Signals *)

None == [signal_type |-> "NONE"]

Infinity == [num |-> 1, den |-> 0]
Fraction(n, d) == [num |-> n, den |-> d]

\* x >= y for a fraction x (den >= 0) and an integer y
AtLeast(x, y) == IF x.den = 0 THEN TRUE ELSE x.num >= y * x.den

SeverityRank(sev) ==
    CASE sev = "LOW" -> 0
      [] sev = "MEDIUM" -> 1
      [] sev = "HIGH" -> 2
      [] sev = "CRITICAL" -> 3

---------------------------------------------------------------------------
(* VolumeMetrics.detect_volume_spike *)

OfMint(frame, m) == SelectSeq(frame, LAMBDA t : t.mint = m)

\* a detector that forgets the direction filter
BuysAndSells(frame) == frame

Buys(frame) == SelectSeq(frame, LAMBDA t : t.is_buy)

RecentTrades(mint_trades, recent_cutoff) ==
    SelectSeq(mint_trades, LAMBDA t : t.observed_at >= recent_cutoff)

BaselineTrades(mint_trades, baseline_cutoff, recent_cutoff) ==
    SelectSeq(mint_trades,
              LAMBDA t : t.observed_at >= baseline_cutoff
                         /\ t.observed_at < recent_cutoff)

RecentStats(recent_trades) ==
    [ volume_sol |-> SumSol(Buys(recent_trades)),
      trade_count |-> Len(Buys(recent_trades)) ]

BaselineStats(baseline_trades) ==
    [ volume_sol |-> SumSol(Buys(baseline_trades)),
      trade_count |-> Len(Buys(baseline_trades)) ]

\* a zero baseline taken for "no change"
SpikePercentageZeroed(recent_volume, baseline_volume) ==
    IF baseline_volume = 0
    THEN IF recent_volume > 0 THEN Fraction(0, 1) ELSE None
    ELSE Fraction((recent_volume - baseline_volume) * 100, baseline_volume)

\* the difference taken the other way round: baseline minus recent
SpikePercentageSwapped(recent_volume, baseline_volume) ==
    IF baseline_volume = 0
    THEN IF recent_volume > 0 THEN Infinity ELSE None
    ELSE Fraction((baseline_volume - recent_volume) * 100, baseline_volume)

\* the recent volume as a percentage of the baseline, not the increase
SpikePercentageRatio(recent_volume, baseline_volume) ==
    IF baseline_volume = 0
    THEN IF recent_volume > 0 THEN Infinity ELSE None
    ELSE Fraction(recent_volume * 100, baseline_volume)

\* the spike, or None where the code returns before computing one
SpikePercentage(recent_volume, baseline_volume) ==
    IF baseline_volume = 0
    THEN IF recent_volume > 0 THEN Infinity ELSE None
    ELSE Fraction((recent_volume - baseline_volume) * 100, baseline_volume)

\* a strictly greater comparison with x, exact like AtLeast
Above(x, y) == IF x.den = 0 THEN TRUE ELSE x.num > y * x.den

\* tiers that need their bound to be exceeded
VolumeSeverityAbove(spike_percentage) ==
    IF Above(spike_percentage, 1000) THEN "CRITICAL"
    ELSE IF Above(spike_percentage, 500) THEN "HIGH"
    ELSE IF Above(spike_percentage, 300) THEN "MEDIUM"
    ELSE "LOW"

VolumeSeverity(spike_percentage) ==
    IF AtLeast(spike_percentage, 1000) THEN "CRITICAL"
    ELSE IF AtLeast(spike_percentage, 500) THEN "HIGH"
    ELSE IF AtLeast(spike_percentage, 300) THEN "MEDIUM"
    ELSE "LOW"

VolumeSignal(m, spike_percentage, recent, baseline) ==
    [ signal_type |-> "VOLUME_SPIKE",
      severity |-> VolumeSeverity(spike_percentage),
      mint |-> m,
      recent_volume_sol |-> recent.volume_sol,
      baseline_volume_sol |-> baseline.volume_sol,
      spike_percentage |-> spike_percentage,
      trade_count_recent |-> recent.trade_count,
      trade_count_baseline |-> baseline.trade_count ]

\* a trigger that needs the threshold to be exceeded
TriggersAbove(spike_percentage, threshold) ==
    spike_percentage.den = 0 \/ spike_percentage.num > threshold * spike_percentage.den

Triggers(spike_percentage, threshold) == AtLeast(spike_percentage, threshold)

detect_volume_spike(frame, m, recent_minutes, baseline_minutes, threshold, now) ==
    LET recent_cutoff == now - recent_minutes
        baseline_cutoff == now - (recent_minutes + baseline_minutes)
        mint_trades == OfMint(frame, m)
        recent == RecentStats(RecentTrades(mint_trades, recent_cutoff))
        baseline ==
            BaselineStats(BaselineTrades(mint_trades, baseline_cutoff, recent_cutoff))
        spike_percentage ==
            SpikePercentage(recent.volume_sol, baseline.volume_sol)
    IN  IF spike_percentage = None
        THEN None
        ELSE IF Triggers(spike_percentage, threshold)
        THEN VolumeSignal(m, spike_percentage, recent, baseline)
        ELSE None

---------------------------------------------------------------------------
(* WhaleMetrics.detect_whale_accumulation *)

FirstTradeTime(mint_trades) == MinTime(mint_trades)

\* a launch window that stops short of its last instant
EarlyTradesBefore(mint_trades, window_end) ==
    SelectSeq(mint_trades, LAMBDA t : t.observed_at < window_end)

\* a launch window one tick too long
EarlyTradesLate(mint_trades, window_end) ==
    SelectSeq(mint_trades, LAMBDA t : t.observed_at <= window_end + 1)

EarlyTrades(mint_trades, window_end) ==
    SelectSeq(mint_trades, LAMBDA t : t.observed_at <= window_end)

OfTrader(frame, tr) == SelectSeq(frame, LAMBDA t : t.trader = tr)

TradersIn(frame) == { frame[i].trader : i \in DOMAIN frame }

\* the aggregates of one group of group_by("trader"); last() is the last row
\* of the group in the order of the frame
WhaleRow(own) ==
    [ trader |-> own[1].trader,
      total_sol |-> SumSol(own),
      total_tokens |-> SumTokens(own),
      trade_count |-> Len(own),
      first_trade |-> MinTime(own),
      last_trade |-> MaxTime(own),
      last_sol_reserves |-> own[Len(own)].virtual_sol_reserves,
      last_token_reserves |-> own[Len(own)].virtual_token_reserves ]

\* a filter that drops the trader who is exactly at the threshold
WhaleCandidatesAbove(early_trades, sol_threshold) ==
    { row \in { WhaleRow(OfTrader(Buys(early_trades), tr)) :
                    tr \in TradersIn(Buys(early_trades)) } :
        row.total_sol > sol_threshold }

WhaleCandidates(early_trades, sol_threshold) ==
    { row \in { WhaleRow(OfTrader(Buys(early_trades), tr)) :
                    tr \in TradersIn(Buys(early_trades)) } :
        row.total_sol >= sol_threshold }

\* the optional market cap: {} is None, {x} is x
MarketCap(row) ==
    IF row.last_sol_reserves # 0 /\ row.last_token_reserves # 0
    THEN {row.last_sol_reserves}
    ELSE {}

\* tiers that need their bound to be exceeded
WhaleSeverityAbove(total_sol) ==
    IF total_sol > 50 THEN "CRITICAL"
    ELSE IF total_sol > 25 THEN "HIGH"
    ELSE IF total_sol > 15 THEN "MEDIUM"
    ELSE "LOW"

WhaleSeverity(total_sol) ==
    IF total_sol >= 50 THEN "CRITICAL"
    ELSE IF total_sol >= 25 THEN "HIGH"
    ELSE IF total_sol >= 15 THEN "MEDIUM"
    ELSE "LOW"

WhaleSignal(m, row) ==
    [ signal_type |-> "WHALE_WATCH",
      severity |-> WhaleSeverity(row.total_sol),
      mint |-> m,
      trader_address |-> row.trader,
      total_sol_accumulated |-> row.total_sol,
      total_tokens_accumulated |-> row.total_tokens,
      trade_count |-> row.trade_count,
      first_trade_at |-> row.first_trade,
      last_trade_at |-> row.last_trade,
      estimated_market_cap_sol |-> MarketCap(row) ]

\* the rows the signals are built from
whale_candidates(frame, m, first_minutes, sol_threshold) ==
    LET mint_trades == OfMint(frame, m)
    IN  IF Len(mint_trades) = 0
        THEN {}
        ELSE LET window_end == FirstTradeTime(mint_trades) + first_minutes
                 early_trades == EarlyTrades(mint_trades, window_end)
             IN  IF Len(early_trades) = 0
                 THEN {}
                 ELSE WhaleCandidates(early_trades, sol_threshold)

\* the signals of the returned list; group_by fixes no order of the groups
detect_whale_accumulation(frame, m, first_minutes, sol_threshold) ==
    { WhaleSignal(m, row) :
        row \in whale_candidates(frame, m, first_minutes, sol_threshold) }

\* the lists that hold every element of a set once
ListsOf(set) ==
    { l \in [1..Cardinality(set) -> set] :
        \A i, j \in 1..Cardinality(set) : i # j => l[i] # l[j] }

---------------------------------------------------------------------------
(* detect_volume_spike applied to every bounded batch *)

VolumeInit ==
    /\ pc = "volume_call"
    /\ trades_lf \in VolumeBatches
    /\ mint = "m1"
    /\ threshold_percent \in Thresholds
    /\ volume_signal = None
    /\ whale_signals = <<>>
    /\ RunnerInit

VolumeCall ==
    /\ pc = "volume_call"
    /\ volume_signal' =
           detect_volume_spike(trades_lf, mint, RecentMinutes, BaselineMinutes,
                               threshold_percent, Now)
    /\ pc' = "volume_returned"
    /\ UNCHANGED <<trades_lf, mint, threshold_percent, whale_signals, runner>>

VolumeNext == VolumeCall

VolumeSpec == VolumeInit /\ [][VolumeNext]_vars

---------------------------------------------------------------------------
(* What detect_volume_spike is expected to return, stated over the rows *)

MintRows == { i \in DOMAIN trades_lf : trades_lf[i].mint = mint }

RecentCutoff == Now - RecentMinutes
BaselineCutoff == Now - (RecentMinutes + BaselineMinutes)

\* the rows the detector counts as recent and as baseline
RecentRows == { i \in MintRows : trades_lf[i].observed_at >= RecentCutoff }
BaselineRows ==
    { i \in MintRows : /\ trades_lf[i].observed_at >= BaselineCutoff
                       /\ trades_lf[i].observed_at < RecentCutoff }

\* the recent window closed at the clock: [now - recent, now)
RecentRowsBeforeNow == { i \in RecentRows : trades_lf[i].observed_at < Now }

BuyRows(rows) == { i \in rows : trades_lf[i].is_buy }

RECURSIVE SolOver(_)
SolOver(rows) ==
    IF rows = {} THEN 0
    ELSE LET i == CHOOSE j \in rows : TRUE
         IN  trades_lf[i].sol_amount + SolOver(rows \ {i})

RecentBuyVolume == SolOver(BuyRows(RecentRows))
BaselineBuyVolume == SolOver(BuyRows(BaselineRows))

Returned == pc = "volume_returned"
Signalled == volume_signal # None

\* the rows of a frame that is a sub-sequence of the batch
RowsOf(frame) == { i \in DOMAIN trades_lf : \E k \in DOMAIN frame : frame[k] = trades_lf[i] }

C2_ZeroBaselinePolicy ==
    (Returned /\ BaselineBuyVolume = 0) =>
        /\ RecentBuyVolume > 0 =>
             /\ Signalled
             /\ volume_signal.spike_percentage = Infinity
             /\ volume_signal.severity = "CRITICAL"
             /\ volume_signal.recent_volume_sol = RecentBuyVolume
             /\ volume_signal.baseline_volume_sol = 0
        /\ RecentBuyVolume = 0 => ~Signalled

\* a burst over an empty baseline, reported under the highest threshold
C2_Witness ==
    /\ Returned /\ Signalled
    /\ BaselineBuyVolume = 0 /\ RecentBuyVolume > 0
    /\ threshold_percent = 1000
    /\ BuyRows(MintRows) # MintRows

\* C3 as stated: the recent window is [now - recent, now), the baseline
\* window [now - recent - baseline, now - recent), a row at or after now is
\* in neither.
C3_RecentWindowEndsAtNow ==
    Returned =>
        /\ RowsOf(RecentTrades(OfMint(trades_lf, mint), RecentCutoff))
             = RecentRowsBeforeNow
        /\ RowsOf(BaselineTrades(OfMint(trades_lf, mint), BaselineCutoff, RecentCutoff))
             = BaselineRows

WithoutSells(frame) == SelectSeq(frame, LAMBDA t : t.is_buy = TRUE)

\* C7: the result depends on the buys only: the batch and the batch with
\* its sells removed give the same result, field by field.
C7_SellsNeverCount ==
    Returned =>
        volume_signal =
            detect_volume_spike(WithoutSells(trades_lf), mint, RecentMinutes,
                                BaselineMinutes, threshold_percent, Now)

\* a signal over a batch that holds a sell of the mint in each window
C7_Witness ==
    /\ Returned /\ Signalled
    /\ \E i \in RecentRows : ~trades_lf[i].is_buy
    /\ \E i \in BaselineRows : ~trades_lf[i].is_buy

---------------------------------------------------------------------------
(* detect_whale_accumulation applied to every bounded batch *)

WhaleInit ==
    /\ pc = "whale_call"
    /\ trades_lf \in WhaleBatches
    /\ mint = "m1"
    /\ threshold_percent = VolumeSpikeThreshold
    /\ volume_signal = None
    /\ whale_signals = <<>>
    /\ RunnerInit

WhaleCall ==
    /\ pc = "whale_call"
    /\ whale_signals' \in
           ListsOf(detect_whale_accumulation(trades_lf, mint, WhaleFirstMinutes,
                                             WhaleSolThreshold))
    /\ pc' = "whale_returned"
    /\ UNCHANGED <<trades_lf, mint, threshold_percent, volume_signal, runner>>

WhaleNext == WhaleCall

WhaleSpec == WhaleInit /\ [][WhaleNext]_vars

---------------------------------------------------------------------------
(* What detect_whale_accumulation is expected to return, stated over the rows *)

WhaleReturned == pc = "whale_returned"

\* the launch-time proxy: the earliest row of the mint, buy or sell
LaunchTime ==
    CHOOSE x \in { trades_lf[i].observed_at : i \in MintRows } :
        \A i \in MintRows : x <= trades_lf[i].observed_at

WindowEnd == LaunchTime + WhaleFirstMinutes

BuysOfTrader(tr) == { i \in BuyRows(MintRows) : trades_lf[i].trader = tr }

\* the buys of a trader in [launch, launch + first_window)
BuysBeforeEnd(tr) ==
    { i \in BuysOfTrader(tr) : trades_lf[i].observed_at < WindowEnd }

\* the buys of a trader at the instant launch + first_window
BuysAtEnd(tr) ==
    { i \in BuysOfTrader(tr) : trades_lf[i].observed_at = WindowEnd }

\* the buys of a trader in [launch, launch + first_window]
BuysUpToEnd(tr) == BuysBeforeEnd(tr) \cup BuysAtEnd(tr)

RECURSIVE TokensOver(_)
TokensOver(rows) ==
    IF rows = {} THEN 0
    ELSE LET i == CHOOSE j \in rows : TRUE
         IN  trades_lf[i].token_amount + TokensOver(rows \ {i})

SignalsOf(tr) ==
    { k \in DOMAIN whale_signals : whale_signals[k].trader_address = tr }

C5_BoundaryBuyIncluded ==
    WhaleReturned =>
        \A i \in BuyRows(MintRows) :
            LET tr == trades_lf[i].trader
                upto == SolOver(BuysBeforeEnd(tr)) + SolOver(BuysAtEnd(tr))
            IN  /\ trades_lf[i].observed_at = WindowEnd =>
                     /\ upto >= WhaleSolThreshold => SignalsOf(tr) # {}
                     /\ \A k \in SignalsOf(tr) :
                            /\ whale_signals[k].last_trade_at = WindowEnd
                            /\ whale_signals[k].total_sol_accumulated = upto
                /\ trades_lf[i].observed_at = WindowEnd + 1 =>
                     /\ upto < WhaleSolThreshold => SignalsOf(tr) = {}
                     /\ \A k \in SignalsOf(tr) :
                            /\ whale_signals[k].last_trade_at < trades_lf[i].observed_at
                            /\ whale_signals[k].total_sol_accumulated = upto

\* a trader is signalled only thanks to the buy at the end of the window,
\* and has a further buy one tick later
C5_Witness ==
    /\ WhaleReturned
    /\ \E tr \in Traders :
          /\ SignalsOf(tr) # {}
          /\ BuysAtEnd(tr) # {}
          /\ SolOver(BuysBeforeEnd(tr)) < WhaleSolThreshold
          /\ \E i \in BuysOfTrader(tr) : trades_lf[i].observed_at = WindowEnd + 1

C8_ReservesOfLatestBuy ==
    WhaleReturned =>
        \A row \in whale_candidates(trades_lf, mint, WhaleFirstMinutes,
                                    WhaleSolThreshold) :
            \E i \in BuysUpToEnd(row.trader) :
                /\ \A j \in BuysUpToEnd(row.trader) :
                       trades_lf[j].observed_at <= trades_lf[i].observed_at
                /\ trades_lf[i].virtual_sol_reserves = row.last_sol_reserves
                /\ trades_lf[i].virtual_token_reserves = row.last_token_reserves

---------------------------------------------------------------------------
(* QuantInsightRunner.run, AlphaAnalyzer.run_analysis_cycle and the signal  *)
(* handler.  pc is the place the single task of the event loop is at.      *)

Init ==
    /\ pc = "health"
    /\ trades_lf = <<>>
    /\ mint = "m1"
    /\ threshold_percent = VolumeSpikeThreshold
    /\ volume_signal = None
    /\ whale_signals = <<>>
    /\ RunnerInit

\* _handle_shutdown: runs between two steps of the task, whenever a signal
\* is delivered to the live process
HandleShutdown ==
    /\ pc \notin {"done", "exited"}
    /\ shutdown_event' = TRUE
    /\ UNCHANGED <<pc, detector, cycle_count, elapsed, mints, idx, signals,
                   emitted, signal_count, analyzed, failed, raised, calls,
                   log_calls, returned_total>>

\* the health check passes and the loop is entered, or it fails and the
\* process exits
HealthCheck ==
    /\ pc = "health"
    /\ \/ pc' = "loop"
       \/ pc' = "exited"
    /\ UNCHANGED <<detector, runner>>

\* a loop test that starts every cycle with a fresh counter of signals
LoopTestResetting ==
    /\ pc = "loop"
    /\ IF shutdown_event
       THEN /\ pc' = "done"
            /\ UNCHANGED <<detector, runner>>
       ELSE /\ cycle_count < MaxCycles
            /\ cycle_count' = cycle_count + 1
            /\ pc' = "fetch"
            /\ trades_lf' = <<>>
            /\ volume_signal' = None
            /\ whale_signals' = <<>>
            /\ mints' = <<>>
            /\ idx' = 0
            /\ signals' = <<>>
            /\ emitted' = <<>>
            /\ analyzed' = {}
            /\ failed' = 0
            /\ raised' = "none"
            /\ calls' = <<>>
            /\ signal_count' = 0
            /\ UNCHANGED <<mint, threshold_percent, shutdown_event, elapsed,
                           log_calls, returned_total>>

\* the test of the while loop: leave for log_shutdown, or start a cycle
LoopTest ==
    /\ pc = "loop"
    /\ IF shutdown_event
       THEN /\ pc' = "done"
            /\ UNCHANGED <<detector, runner>>
       ELSE /\ cycle_count < MaxCycles
            /\ cycle_count' = cycle_count + 1
            /\ pc' = "fetch"
            /\ trades_lf' = <<>>
            /\ volume_signal' = None
            /\ whale_signals' = <<>>
            /\ mints' = <<>>
            /\ idx' = 0
            /\ signals' = <<>>
            /\ emitted' = <<>>
            /\ analyzed' = {}
            /\ failed' = 0
            /\ raised' = "none"
            /\ calls' = <<>>
            /\ UNCHANGED <<mint, threshold_percent, shutdown_event, elapsed,
                           signal_count, log_calls, returned_total>>

\* an exception that run does not catch: it leaves the loop for log_shutdown
CycleRaisesUncaught ==
    /\ pc' = "done"
    /\ UNCHANGED <<detector, shutdown_event, cycle_count, elapsed, mints, idx,
                   signals, emitted, signal_count, analyzed, log_calls,
                   returned_total>>

\* an exception leaves run_analysis_cycle; run logs it and goes to the wait
CycleRaises ==
    /\ pc' = "sleep"
    /\ UNCHANGED <<detector, shutdown_event, cycle_count, elapsed, mints, idx,
                   signals, emitted, signal_count, analyzed, log_calls,
                   returned_total>>

FetchTrades ==
    /\ pc = "fetch"
    /\ \/ /\ trades_lf' \in FetchedBatches
          /\ pc' = "mints"
          /\ UNCHANGED <<mint, threshold_percent, volume_signal, whale_signals,
                         runner>>
       \/ /\ CycleRaises
          /\ raised' = "fetch"
          /\ UNCHANGED <<failed, calls>>

GetUniqueMints ==
    /\ pc = "mints"
    /\ \/ /\ mints' \in MintLists
          /\ IF mints' = <<>>
             THEN pc' = "sleep" /\ UNCHANGED <<idx, mint>>
             ELSE pc' = "volume" /\ idx' = 1 /\ mint' = mints'[1]
          /\ UNCHANGED <<trades_lf, threshold_percent, volume_signal,
                         whale_signals, shutdown_event, cycle_count, elapsed,
                         signals, emitted, signal_count, analyzed, failed,
                         raised, calls, log_calls, returned_total>>
       \/ /\ CycleRaises
          /\ raised' = "mints"
          /\ UNCHANGED <<failed, calls>>

\* lines 53-56: the volume detector for the mint at idx, its signal appended
\* and logged
DetectVolume ==
    /\ pc = "volume"
    /\ \/ /\ volume_signal' =
                 detect_volume_spike(trades_lf, mint, RecentMinutes,
                                     BaselineMinutes, threshold_percent, Now)
          /\ IF volume_signal' # None
             THEN /\ signals' = Append(signals, volume_signal')
                  /\ emitted' = Append(emitted, volume_signal')
                  /\ signal_count' = signal_count + 1
                  /\ log_calls' = log_calls + 1
             ELSE UNCHANGED <<signals, emitted, signal_count, log_calls>>
          /\ calls' = Append(calls, <<"volume", mint>>)
          /\ pc' = "whale"
          /\ UNCHANGED <<trades_lf, mint, threshold_percent, whale_signals,
                         shutdown_event, cycle_count, elapsed, mints, idx,
                         analyzed, failed, raised, returned_total>>
       \/ /\ CycleRaises
          /\ calls' = Append(calls, <<"volume", mint>>)
          /\ raised' = "volume"
          /\ failed' = idx

\* a whale step that puts its signals in front of the list it returns
DetectWhalePrepending ==
    /\ pc = "whale"
    /\ \/ /\ whale_signals' \in
                 ListsOf(detect_whale_accumulation(trades_lf, mint,
                                                   WhaleFirstMinutes,
                                                   WhaleSolThreshold))
          /\ signals' = whale_signals' \o signals
          /\ emitted' = emitted \o whale_signals'
          /\ signal_count' = signal_count + Len(whale_signals')
          /\ log_calls' = log_calls + Len(whale_signals')
          /\ calls' = Append(calls, <<"whale", mint>>)
          /\ analyzed' = analyzed \cup {idx}
          /\ IF idx < Len(mints)
             THEN pc' = "volume" /\ idx' = idx + 1 /\ mint' = mints[idx + 1]
             ELSE pc' = "summary" /\ UNCHANGED <<idx, mint>>
          /\ UNCHANGED <<trades_lf, threshold_percent, volume_signal,
                         shutdown_event, cycle_count, elapsed, mints, failed,
                         raised, returned_total>>
       \/ /\ CycleRaises
          /\ calls' = Append(calls, <<"whale", mint>>)
          /\ raised' = "whale"
          /\ failed' = idx

\* lines 59-62: the whale detector for the mint at idx, its signals appended
\* and logged in the order of the returned list; then the next mint
DetectWhale ==
    /\ pc = "whale"
    /\ \/ /\ whale_signals' \in
                 ListsOf(detect_whale_accumulation(trades_lf, mint,
                                                   WhaleFirstMinutes,
                                                   WhaleSolThreshold))
          /\ signals' = signals \o whale_signals'
          /\ emitted' = emitted \o whale_signals'
          /\ signal_count' = signal_count + Len(whale_signals')
          /\ log_calls' = log_calls + Len(whale_signals')
          /\ calls' = Append(calls, <<"whale", mint>>)
          /\ analyzed' = analyzed \cup {idx}
          /\ IF idx < Len(mints)
             THEN pc' = "volume" /\ idx' = idx + 1 /\ mint' = mints[idx + 1]
             ELSE pc' = "summary" /\ UNCHANGED <<idx, mint>>
          /\ UNCHANGED <<trades_lf, threshold_percent, volume_signal,
                         shutdown_event, cycle_count, elapsed, mints, failed,
                         raised, returned_total>>
       \/ /\ CycleRaises
          /\ calls' = Append(calls, <<"whale", mint>>)
          /\ raised' = "whale"
          /\ failed' = idx

\* lines 64-69: the summary is logged and the list returned
ReturnSignals ==
    /\ pc = "summary"
    /\ pc' = "sleep"
    /\ returned_total' = returned_total + Len(signals)
    /\ UNCHANGED <<detector, shutdown_event, cycle_count, elapsed, mints, idx,
                   signals, emitted, signal_count, analyzed, failed, raised,
                   calls, log_calls>>

\* wait_for(self._shutdown_event.wait(), timeout): an event that is already
\* set ends the wait at once, otherwise the task is suspended
EnterWait ==
    /\ pc = "sleep"
    /\ IF shutdown_event
       THEN pc' = "loop" /\ UNCHANGED elapsed
       ELSE pc' = "wait" /\ elapsed' = 0
    /\ UNCHANGED <<detector, shutdown_event, cycle_count, mints, idx, signals,
                   emitted, signal_count, analyzed, failed, raised, calls,
                   log_calls, returned_total>>

\* time passes while the task is suspended.  The handler was installed with
\* signal.signal, not with the loop: setting the event from it does not wake
\* a selector that is waiting for the timeout, so time may pass after the
\* event is set
WaitTick ==
    /\ pc = "wait"
    /\ elapsed < IntervalTicks
    /\ elapsed' = elapsed + 1
    /\ UNCHANGED <<pc, detector, shutdown_event, cycle_count, mints, idx,
                   signals, emitted, signal_count, analyzed, failed, raised,
                   calls, log_calls, returned_total>>

\* the timeout fires: TimeoutError is passed over, or the set event is seen
WaitTimeout ==
    /\ pc = "wait"
    /\ elapsed = IntervalTicks
    /\ pc' = "loop"
    /\ UNCHANGED <<detector, runner>>

\* the loop is woken before the timeout and the waiter of the set event runs
WaitWake ==
    /\ pc = "wait"
    /\ shutdown_event
    /\ pc' = "loop"
    /\ UNCHANGED <<detector, runner>>

\* the steps of the task
Run ==
    \/ HealthCheck
    \/ LoopTest
    \/ FetchTrades
    \/ GetUniqueMints
    \/ DetectVolume
    \/ DetectWhale
    \/ ReturnSignals
    \/ EnterWait
    \/ WaitTick
    \/ WaitTimeout
    \/ WaitWake

Next == Run \/ HandleShutdown

Spec == Init /\ [][Next]_vars

\* the event loop keeps running its only task, and the clock keeps ticking
FairSpec == Spec /\ WF_vars(Run)

---------------------------------------------------------------------------
(* The analysis cycle and the drive loop *)

InCycle == pc \in {"fetch", "mints", "volume", "whale", "summary"}
InLoop == pc \in {"loop", "sleep", "wait"} \/ InCycle

\* C9: a detector that raises for one mint does not block the others: when
\* the cycle is over, both detectors have run for every mint that comes
\* after the failing one in the list.
C9_FailureDoesNotBlockLaterMints ==
    (pc = "sleep" /\ failed # 0) =>
        \A j \in (failed + 1)..Len(mints) : j \in analyzed

\* C10 (i): once the shutdown event is set it stays set and no cycle starts
C10_NoCycleAfterShutdown ==
    [][shutdown_event => shutdown_event' /\ cycle_count' = cycle_count]_vars

\* C10 (ii): a shutdown does not abort the cycle in flight: the cycle goes
\* on step by step until run_analysis_cycle is left, and it is left
C10_CycleInFlightCompletes ==
    /\ [][(InCycle /\ shutdown_event) => (InCycle' \/ pc' = "sleep")]_vars
    /\ (InCycle /\ shutdown_event) ~> (pc = "sleep")

\* C10 (iii): a shutdown that arrives during the idle wait ends the wait
\* before the interval has elapsed
C10_ShutdownEndsWaitEarly ==
    [][(pc = "wait" /\ shutdown_event /\ elapsed < IntervalTicks)
          => (pc' # "wait" \/ elapsed' < IntervalTicks)]_vars

\* C10 (iv): after a shutdown request the loop exits and logs the shutdown
C10_LoopExits == (InLoop /\ shutdown_event) ~> (pc = "done")

\* C10: the four parts together
C10_ShutdownStopsLoop ==
    /\ C10_NoCycleAfterShutdown
    /\ C10_CycleInFlightCompletes
    /\ C10_ShutdownEndsWaitEarly
    /\ C10_LoopExits

---------------------------------------------------------------------------
(* Failures of the upstream reads *)

\* the cycle in flight, or the last one, was left by an exception of
\* fetch_recent_pumpfun_trades or of get_unique_mints
UpstreamFailed == raised \in {"fetch", "mints"}

\* C11 (i): the cycle is aborted: no detector was called in it and nothing
\* was appended or passed to log_signal
C11_NoDetectorNoSignal ==
    UpstreamFailed => calls = <<>> /\ signals = <<>> /\ emitted = <<>>

\* C11 (ii): the exception reaches run, which goes to the wait of the same
\* iteration and leaves the counter of logged signals alone
C11_PropagatedToLoop ==
    [][(~UpstreamFailed /\ UpstreamFailed')
          => (pc' = "sleep" /\ signal_count' = signal_count)]_vars

\* C11 (iii): the loop goes on: unless a shutdown is requested, the next
\* cycle starts
C11_NextCycleStarts ==
    \A n \in 1..(MaxCycles - 1) :
        (UpstreamFailed /\ cycle_count = n)
            ~> (cycle_count = n + 1 \/ shutdown_event)

\* C11 (iv): the loop is only ever left after a shutdown request
C11_OnlyShutdownEndsLoop == (pc = "done") => shutdown_event

\* C11: a failure of the batch fetch or of the active-mint read aborts the
\* current cycle (no detector runs, no signal is emitted), is propagated to
\* the drive loop, which goes on to the next scheduled cycle; no cycle
\* failure ends the loop, only a shutdown request does.
C11_UpstreamFailureAbortsCycleOnly ==
    /\ []C11_NoDetectorNoSignal
    /\ C11_PropagatedToLoop
    /\ C11_NextCycleStarts
    /\ []C11_OnlyShutdownEndsLoop

\* an upstream read failed in the second cycle, after a first cycle that
\* logged a signal, and the wait has timed out without a shutdown request
C11_Witness ==
    /\ UpstreamFailed
    /\ pc = "wait"
    /\ elapsed = IntervalTicks
    /\ ~shutdown_event
    /\ cycle_count = 2
    /\ signal_count > 0

---------------------------------------------------------------------------
(* Order of the detector calls and of the signals of a cycle *)

\* the mint loop has ended and the list is about to be returned
CycleCompleted == pc = "summary"

\* the position of a mint in the active-mint list
MintPosition(m) == CHOOSE i \in DOMAIN mints : mints[i] = m

\* one volume call then one whale call for every mint, in list order
CallsInMintOrder ==
    /\ Len(calls) = 2 * Len(mints)
    /\ \A i \in DOMAIN mints :
           /\ calls[2 * i - 1] = <<"volume", mints[i]>>
           /\ calls[2 * i] = <<"whale", mints[i]>>

\* signals of an earlier mint come first, and within a mint the volume
\* signal comes before the whale signals
SignalsInDetectionOrder ==
    \A i, j \in DOMAIN signals :
        i < j =>
            /\ MintPosition(signals[i].mint) <= MintPosition(signals[j].mint)
            /\ (signals[i].mint = signals[j].mint
                   => signals[j].signal_type = "WHALE_WATCH")

\* C12: in one run of run_analysis_cycle the mints are processed in the
\* order of the active-mint list, each mint gets exactly one volume-detector
\* call followed by exactly one whale-detector call, and the signals passed
\* to log_signal are, in content and order, the list the cycle returns: the
\* volume signal of a mint precedes its whale signals and the signals of an
\* earlier mint precede those of a later mint.
C12_SignalsInDetectionOrder ==
    CycleCompleted =>
        /\ CallsInMintOrder
        /\ emitted = signals
        /\ SignalsInDetectionOrder

\* a completed cycle over two mints that each gave a volume signal and a
\* whale signal
C12_Witness ==
    /\ CycleCompleted
    /\ Len(mints) = 2
    /\ Len(signals) = 4
    /\ signals[1].signal_type = "VOLUME_SPIKE"
    /\ signals[2].signal_type = "WHALE_WATCH"
    /\ signals[2].mint = mints[1]
    /\ signals[3].mint = mints[2]

---------------------------------------------------------------------------
(* detect_volume_spike around the bounds of the severity tiers *)

\* baseline buys of 50 and 100, and recent buys that put the spike on, just
\* below and between the bounds 300, 500 and 1000; a sell and a buy of
\* another mint in the recent window
TierRecentAmounts == {100, 399, 400, 500, 599, 600, 1099, 1100}
TierTrades ==
    { Trade(Now - RecentMinutes - 1, "m1", "ta", TRUE, s, 1, 1, 1) :
        s \in {50, 100} }
    \cup { Trade(Now - 1, "m1", "ta", TRUE, s, 1, 1, 1) :
             s \in TierRecentAmounts }
    \cup { Trade(Now - 1, "m1", "ta", FALSE, 1100, 1, 1, 1),
           Trade(Now - 1, "m2", "ta", TRUE, 1100, 1, 1, 1) }

TierBatches == BatchesOver(TierTrades, MaxTrades)

\* thresholds below, on and above the lowest tier bound
TierThresholds == {0, 299, 300, 301, 400, 401}

TierInit ==
    /\ pc = "volume_call"
    /\ trades_lf \in TierBatches
    /\ mint = "m1"
    /\ threshold_percent \in TierThresholds
    /\ volume_signal = None
    /\ whale_signals = <<>>
    /\ RunnerInit

TierSpec == TierInit /\ [][VolumeNext]_vars

\* the spike of the batch is at least p percent: exact, and true of the
\* infinite spike of a zero baseline
SpikeAtLeast(p) ==
    IF BaselineBuyVolume = 0
    THEN RecentBuyVolume > 0
    ELSE (RecentBuyVolume - BaselineBuyVolume) * 100 >= p * BaselineBuyVolume

\* the tier of the spike of the batch, first match from the top
ExpectedVolumeSeverity ==
    IF SpikeAtLeast(1000) THEN "CRITICAL"
    ELSE IF SpikeAtLeast(500) THEN "HIGH"
    ELSE IF SpikeAtLeast(300) THEN "MEDIUM"
    ELSE "LOW"

\* C13: the severity of every VolumeSignal is determined by
\* spike_percentage alone, first match from the top: >= 1000 CRITICAL,
\* >= 500 HIGH, >= 300 MEDIUM, otherwise LOW; the tiering does not depend on
\* threshold_percent, so a LOW signal is returned exactly when
\* threshold_percent <= spike_percentage < 300, and never under the default
\* threshold of 300.
C13_VolumeSeverityTiers ==
    Returned =>
        /\ Signalled => volume_signal.severity = ExpectedVolumeSeverity
        /\ (Signalled /\ volume_signal.severity = "LOW")
              <=> /\ BaselineBuyVolume > 0
                  /\ SpikeAtLeast(threshold_percent)
                  /\ ~SpikeAtLeast(300)
        /\ threshold_percent = VolumeSpikeThreshold
              => ~(Signalled /\ volume_signal.severity = "LOW")

\* a signal of severity MEDIUM whose spike is exactly 300, returned under a
\* threshold below 300 that also lets LOW signals through
C13_Witness ==
    /\ Returned
    /\ Signalled
    /\ threshold_percent = 299
    /\ BaselineBuyVolume > 0
    /\ (RecentBuyVolume - BaselineBuyVolume) * 100 = 300 * BaselineBuyVolume
    /\ volume_signal.severity = "MEDIUM"

---------------------------------------------------------------------------
(* Scenario A: baseline buy volume 100, recent buy volume 500 *)

\* the call has returned for a batch of a single mint whose buys sum to 100
\* in the baseline window and to 500 in the recent window
ScenarioA ==
    /\ Returned
    /\ \A i \in DOMAIN trades_lf : trades_lf[i].mint = mint
    /\ BaselineBuyVolume = 100
    /\ RecentBuyVolume = 500

\* the signal carries a spike of exactly p percent
SpikeIs(p) ==
    /\ volume_signal.spike_percentage.den > 0
    /\ volume_signal.spike_percentage.num = p * volume_signal.spike_percentage.den

\* C14 as stated: in scenario A the spike is 300%, a signal is returned if
\* and only if threshold_percent <= 300, and its severity is MEDIUM.
C14_ScenarioASpike300 ==
    ScenarioA =>
        /\ Signalled <=> threshold_percent <= 300
        /\ Signalled => SpikeIs(300) /\ volume_signal.severity = "MEDIUM"

\* C14: in scenario A the spike is (500 - 100) / 100 * 100 = 400%, a signal
\* is returned if and only if threshold_percent <= 400, and its severity is
\* MEDIUM.
C14_ScenarioASpike400 ==
    ScenarioA =>
        /\ Signalled <=> threshold_percent <= 400
        /\ Signalled => SpikeIs(400) /\ volume_signal.severity = "MEDIUM"

\* scenario A under a threshold of 400, which the spike just reaches
C14_Witness ==
    /\ ScenarioA
    /\ threshold_percent = 400
    /\ Signalled
    /\ Len(trades_lf) = 3

---------------------------------------------------------------------------
(* Doubling the recent volume *)

\* the batch with the amount of every row of the recent window doubled: the
\* recent volume doubles, the baseline and the trade counts stay
DoubledRecent(frame) ==
    [ i \in DOMAIN frame |->
        IF frame[i].observed_at >= RecentCutoff
        THEN [frame[i] EXCEPT !.sol_amount = 2 * @]
        ELSE frame[i] ]

\* what detect_volume_spike returns for the doubled batch
DoubledSignal ==
    detect_volume_spike(DoubledRecent(trades_lf), mint, RecentMinutes,
                        BaselineMinutes, threshold_percent, Now)

\* C15: volume severity is monotonic in the recent volume: with a baseline
\* volume > 0 and the baseline and threshold_percent fixed, if a signal is
\* returned for the recent volume r then one is returned for 2r, and its
\* severity is not lower in the order LOW < MEDIUM < HIGH < CRITICAL.
C15_DoublingNeverLowersSeverity ==
    (Returned /\ BaselineBuyVolume > 0 /\ Signalled) =>
        /\ DoubledSignal # None
        /\ DoubledSignal.recent_volume_sol = 2 * volume_signal.recent_volume_sol
        /\ DoubledSignal.baseline_volume_sol = volume_signal.baseline_volume_sol
        /\ SeverityRank(DoubledSignal.severity)
              >= SeverityRank(volume_signal.severity)

\* a MEDIUM signal over a positive baseline whose doubled batch gives HIGH
C15_Witness ==
    /\ Returned
    /\ BaselineBuyVolume > 0
    /\ RecentBuyVolume > 0
    /\ Signalled
    /\ volume_signal.severity = "MEDIUM"
    /\ DoubledSignal # None
    /\ DoubledSignal.severity = "HIGH"

---------------------------------------------------------------------------
(* Severity of a whale signal *)

\* the tier of a total, first match from the top
ExpectedWhaleSeverity(total) ==
    IF total >= 50 THEN "CRITICAL"
    ELSE IF total >= 25 THEN "HIGH"
    ELSE IF total >= 15 THEN "MEDIUM"
    ELSE "LOW"

\* C16: the severity of every WhaleSignal is determined by
\* total_accumulated, first match from the top: >= 50 CRITICAL, >= 25 HIGH,
\* >= 15 MEDIUM, otherwise LOW; a trader who buys 20 SOL in total inside
\* the window, with threshold 10, yields exactly one WhaleSignal, of
\* severity MEDIUM.
C16_WhaleSeverityTiers ==
    WhaleReturned =>
        /\ \A k \in DOMAIN whale_signals :
               /\ whale_signals[k].total_sol_accumulated
                    = SolOver(BuysUpToEnd(whale_signals[k].trader_address))
               /\ whale_signals[k].severity
                    = ExpectedWhaleSeverity(
                          SolOver(BuysUpToEnd(whale_signals[k].trader_address)))
        /\ \A tr \in Traders :
               SolOver(BuysUpToEnd(tr)) = 20 =>
                   /\ Cardinality(SignalsOf(tr)) = 1
                   /\ \A k \in SignalsOf(tr) :
                          whale_signals[k].severity = "MEDIUM"

\* a trader with two buys of 10 inside the window, and a second signal of
\* another trader whose total is on the bound of a higher tier
C16_Witness ==
    /\ WhaleReturned
    /\ Len(whale_signals) = 2
    /\ \E tr \in Traders :
          /\ SolOver(BuysUpToEnd(tr)) = 20
          /\ Cardinality(BuysUpToEnd(tr)) = 2
    /\ \E k \in DOMAIN whale_signals :
          /\ whale_signals[k].total_sol_accumulated = 25
          /\ whale_signals[k].severity = "HIGH"

---------------------------------------------------------------------------
(* The market-cap estimate of a whale signal *)

\* the buy whose reserves the aggregation takes for a trader: the last of
\* the trader's buys in the window, in the row order of the batch
SelectedBuy(tr) ==
    CHOOSE i \in BuysUpToEnd(tr) : \A j \in BuysUpToEnd(tr) : j <= i

\* C17: every WhaleSignal whose selected trade has both reserve values
\* present carries an estimated market cap equal to the SOL reserve of that
\* trade, a reserve value of 0 included.  Every row of a batch has both
\* reserve values, so every signal carries one.
C17_MarketCapIsSolReserve ==
    WhaleReturned =>
        \A k \in DOMAIN whale_signals :
            whale_signals[k].estimated_market_cap_sol =
                { trades_lf[SelectedBuy(whale_signals[k].trader_address)]
                      .virtual_sol_reserves }

---------------------------------------------------------------------------
(* The session counter of the console *)

\* signals logged by cycles that are over and did not return them
Unreturned ==
    signal_count - returned_total - (IF InCycle THEN Len(emitted) ELSE 0)

\* the step in which an exception leaves a cycle that has logged signals
RaisesAfterEmitting == raised = "none" /\ raised' # "none" /\ emitted # <<>>

\* C18 (i): the counter is the number of log_signal calls made so far
C18_CountsLogCalls == signal_count = log_calls

\* C18 (ii): the counter is never less than the sum of the lengths of the
\* lists the completed cycles returned
C18_AtLeastReturned == signal_count >= returned_total

\* C18 (iii): no step resets or decrements the counter
C18_NeverDecreases == [][signal_count' >= signal_count]_vars

\* C18 (iv): the counter and the returned total drift apart only in a step
\* in which a cycle raises after it has logged signals, and then by the
\* number of signals that cycle logged; until then they are equal whenever
\* no cycle is in flight
C18_EqualUnlessRaisedAfterEmitting ==
    /\ Unreturned = 0
    /\ [][Unreturned' =
             Unreturned + (IF RaisesAfterEmitting THEN Len(emitted) ELSE 0)]_vars

\* C18: after any sequence of analysis cycles, cycles that raise part-way
\* through the mint loop included, _signal_count equals the number of
\* log_signal calls made so far and is never less than the sum of the
\* lengths of the lists the completed cycles returned; the two are equal
\* when no cycle raised after emitting a signal; the counter is never reset
\* or decremented between cycles.
C18_SessionCounter ==
    /\ []C18_CountsLogCalls
    /\ []C18_AtLeastReturned
    /\ C18_NeverDecreases
    /\ C18_EqualUnlessRaisedAfterEmitting

\* the second cycle raised in the mint loop after logging a signal, and the
\* first cycle returned a non-empty list: the counter is ahead of the total
C18_Witness ==
    /\ pc = "sleep"
    /\ cycle_count = 2
    /\ raised \in {"volume", "whale"}
    /\ emitted # <<>>
    /\ returned_total > 0
    /\ signal_count = returned_total + Len(emitted)

=============================================================================
